---- MODULE Spec2Model ----
(***************************************************************************)
(* Event pipeline of egap-factory: the ingress gateway's POST /webhook     *)
(* handler (src/Dockerfile, lines 180-337) and the orchestrator worker's   *)
(* handleMessage (src/services/orchestrator/src/index.ts, lines 25-181),   *)
(* together with the store (TraceSpan, Task, UsageLog, Agent rows) and the *)
(* queue they share.  Every `await` of the two handlers is a step of its   *)
(* own, so handlers interleave exactly where the runtime can suspend them. *)
(* A store call or a publish may succeed or throw.  Payload contents are   *)
(* left out: a message is its id, its traceId attribute and the fields of  *)
(* its body the worker reads (type, source, traceId, agentId, taskId).     *)
(* Date.now() reads a clock that the timed specifications let advance.     *)
(***************************************************************************)
EXTENDS Integers, FiniteSets, Sequences, TLC

\* ------------------------------------------------------------------ bounds
NReq == 2          \* webhook requests handled (concurrently)
NDel == 2          \* queue deliveries handled (concurrently)
MaxTime == 2       \* clock readings 0..MaxTime

Reqs == 1..NReq
Dels == 1..NDel

\* ---------------------------------------------------------- JS primitives
\* Absent / undefined values: 0 for ids, "" for strings (both falsy in JS).
NoId  == 0
NoStr == ""

\* Request bodies as the HTTP framework hands them to the handler.
\* kind is the JS value's shape; source is body.source for objects.
Bodies ==
    { [kind |-> "undefined", source |-> NoStr],
      [kind |-> "null",      source |-> NoStr],
      [kind |-> "string",    source |-> NoStr],
      [kind |-> "array",     source |-> NoStr],
      [kind |-> "object",    source |-> "github"],
      [kind |-> "object",    source |-> "slack"],
      [kind |-> "object",    source |-> NoStr] }

\* `!body` of line 239: undefined and null are falsy, the others truthy
\* (the string body modelled is a non-empty one).
Truthy(body) == body.kind \notin {"undefined", "null"}

\* `typeof body` of line 239: null, arrays and plain objects are "object".
TypeOf(body) ==
    CASE body.kind = "undefined" -> "undefined"
      [] body.kind = "string"    -> "string"
      [] OTHER                   -> "object"

\* The validation of lines 239-241.
BodyRejected(body) == (~Truthy(body)) \/ TypeOf(body) # "object"

\* `a || b` on ids and on strings.
OrId(a, b)  == IF a # NoId THEN a ELSE b
OrStr(a, b) == IF a # NoStr THEN a ELSE b

\* randomUUID(): a value no other call returns.  who is the handler
\* instance ("ingress"/"orchestrator", n), slot the call site.
randomUUID(svc, n, slot) == <<svc, n, slot>>

\* Trace ids are numbers in the model: those minted by the gateway for
\* request r, those minted by the worker for delivery d, and those that
\* arrive from outside (ExtTraceA, ExtTraceB).
ExternalTraceId(k) == k
ExtTraceA == ExternalTraceId(1)
ExtTraceB == ExternalTraceId(2)
GatewayTraceId(r) == 10 + r
WorkerTraceId(d)  == 20 + d

\* The id the store gives the Task row written by delivery d.
NewTaskId(d) == 50 + d

\* ------------------------------------------------------------- the store
\* Agent rows (created administratively).  The seed script registers role
\* "github"; a second agent has another role.
Agents ==
    { [id |-> 1, name |-> "GitHub Keeper", role |-> "github"],
      [id |-> 2, name |-> "Mailer",        role |-> "email"] }

\* Tool rows, as the seed script names them.
Tools == { [name |-> "search"], [name |-> "email"], [name |-> "github"] }

\* ------------------------------------------------------------- the queue
\* What JSON.stringify(message) of the gateway puts on the wire, and what
\* other publishers (the approval action, anything else) put there.
\* origin is the webhook request a message came from (0: none), kept as
\* history for the properties.
\* wf: the bytes are well-formed JSON; isNull: they are the text `null`.
JSONstringify(v) == [wf |-> TRUE, isNull |-> FALSE, value |-> v]

NoData == [type |-> NoStr, source |-> NoStr, traceId |-> NoId,
           agentId |-> NoId, taskId |-> NoId]

\* Variant: a lenient parse, bytes that are not JSON yield an empty object.
ParseThrows_Lenient(bytes) == FALSE

\* JSON.parse(message.data.toString()) of line 32.
ParseThrows(bytes) == ~bytes.wf
JSONparse(bytes)   == bytes.value

ExternalMessages ==
    { \* not JSON at all
      [id |-> 1, attrTraceId |-> NoId, origin |-> 0,
       data |-> [wf |-> FALSE, isNull |-> FALSE, value |-> NoData]],
      \* RESUME with agentId, no trace id anywhere
      [id |-> 2, attrTraceId |-> NoId, origin |-> 0,
       data |-> JSONstringify([NoData EXCEPT !.type = "RESUME",
                                             !.agentId = 1, !.taskId = 7])],
      \* RESUME without agentId, trace id in the payload only; its taskId
      \* is the id of the Task the first delivery writes, if it writes one
      [id |-> 3, attrTraceId |-> NoId, origin |-> 0,
       data |-> JSONstringify([NoData EXCEPT !.type = "RESUME",
                                             !.taskId = NewTaskId(1),
                                             !.traceId = ExtTraceB])],
      \* normal signal, attribute and payload trace ids differ
      [id |-> 4, attrTraceId |-> ExtTraceA, origin |-> 0,
       data |-> JSONstringify([NoData EXCEPT !.source = "github",
                                             !.traceId = ExtTraceB])],
      \* normal signal without source (so "unknown", which no agent has as
      \* role) and without trace id
      [id |-> 5, attrTraceId |-> NoId, origin |-> 0,
       data |-> JSONstringify(NoData)],
      \* the JSON text `null`, with a trace id attribute
      [id |-> 6, attrTraceId |-> ExtTraceA, origin |-> 0,
       data |-> [wf |-> TRUE, isNull |-> TRUE, value |-> NoData]] }

\* ------------------------------------------------------------------ state
VARIABLES
    spans,          \* TraceSpan rows
    tasks,          \* Task rows
    usageLogs,      \* UsageLog rows
    queue,          \* messages the gateway has published to the topic
    auditCounters,  \* the gateway's in-memory counters
    req,            \* per webhook request: the handler's locals and position
    del,            \* per delivery: handleMessage's locals and position
    now,            \* what Date.now() returns
    agents,         \* Agent rows
    tools           \* Tool rows

vars == <<spans, tasks, usageLogs, queue, auditCounters, req, del, now,
          agents, tools>>

NoSpan == <<>>
Null   == -1        \* a column left NULL (durationMs before the span is closed)

\* Variant: the subtraction the wrong way round.
ElapsedSince_Reversed(start) == start - now

\* `Date.now() - start`.
ElapsedSince(start) == now - start

NoMeta == [messageId |-> NoId, source |-> NoStr, found |-> FALSE,
           taskId |-> NoId, agentName |-> NoStr, topic |-> FALSE]

\* The default of the TraceSpan.status column (no create passes a status).
DefaultStatus == "OK"

\* prisma.traceSpan.create({data}): status takes the column default.
NewSpan(id, traceId, parentId, service, operation, durationMs, metadata) ==
    [id |-> id, traceId |-> traceId, parentId |-> parentId,
     service |-> service, operation |-> operation,
     durationMs |-> durationMs, status |-> DefaultStatus,
     metadata |-> metadata]

SpanExists(id) == \E s \in spans : s.id = id

\* Variant: the closing update is lost.
UpdateSpanDuration_Dropped(id, durationMs) == spans

\* prisma.traceSpan.update({where: {id}, data}) rewrites the columns named
\* in data of the row with that id; the call throws when there is no such
\* row.  With data: {durationMs}, the closing update of the normal paths:
UpdateSpanDuration(id, durationMs) ==
    { IF s.id = id THEN [s EXCEPT !.durationMs = durationMs] ELSE s :
        s \in spans }

\* Variant: an updateMany keyed by the trace, every span of the trace the
\* row belongs to is marked.
UpdateSpanError_WholeTrace(id, durationMs) ==
    { IF \E t \in spans : t.id = id /\ t.traceId = s.traceId
        THEN [s EXCEPT !.status = "ERROR", !.durationMs = durationMs]
        ELSE s : s \in spans }

\* With data: {status: 'ERROR', durationMs}, the update of the catch blocks:
UpdateSpanError(id, durationMs) ==
    { IF s.id = id
        THEN [s EXCEPT !.status = "ERROR", !.durationMs = durationMs]
        ELSE s : s \in spans }

NoMsg == [id |-> NoId, attrTraceId |-> NoId, origin |-> 0,
          data |-> [wf |-> FALSE, isNull |-> FALSE, value |-> NoData]]

NoResp == [code |-> 0, error |-> NoStr, status |-> NoStr,
           messageId |-> NoId, traceId |-> NoId]

ReqInit ==
    [pc |-> "idle", body |-> [kind |-> "undefined", source |-> NoStr],
     source |-> NoStr, traceId |-> NoId, rootSpanId |-> NoSpan,
     messageId |-> NoId, resp |-> NoResp,
     rootStart |-> 0, opStart |-> 0, dur |-> 0,
     nReceived |-> 0, nPublished |-> 0, nFailed |-> 0, failedAt |-> NoStr,
     swallowed |-> FALSE]

\* rootStart is the handler's rootStart; opStart is the start of the
\* operation being timed (pubsubStart; agentLookupStart, then
\* taskCreateStart); dur is the durationMs argument of the span write or
\* update the handler has issued and is awaiting (the argument is evaluated
\* when the call is made, before the await).
\* History kept for the properties, not program state: nReceived, nPublished
\* and nFailed count the increments a request made to each counter, and
\* failedAt (of a request or a delivery) is the step whose call threw, and
\* swallowed says that the ERROR update of the catch block was rejected.

NoAgent == [id |-> NoId, name |-> NoStr, role |-> NoStr]

DelInit ==
    [pc |-> "idle", msg |-> NoMsg, traceId |-> NoId, rootSpanId |-> NoSpan,
     source |-> NoStr, agent |-> NoAgent, taskId |-> NoId,
     rootStart |-> 0, opStart |-> 0, dur |-> 0,
     acks |-> 0, nacks |-> 0, failedAt |-> NoStr, swallowed |-> FALSE]

Init ==
    /\ spans = {}
    /\ tasks = {}
    /\ usageLogs = {}
    /\ queue = {}
    /\ auditCounters = [totalReceived |-> 0, totalPublished |-> 0,
                        totalFailed |-> 0]
    /\ req = [r \in Reqs |-> ReqInit]
    /\ del = [d \in Dels |-> DelInit]
    /\ now = 0
    /\ agents = Agents
    /\ tools = Tools

\* ------------------------------------------------- gateway: POST /webhook
\* The message id the queue hands back for request r's publish.
PublishedMessageId(r) == 100 + r

\* Variant: the message is stamped with a trace id of its own instead of the
\* request's, and the attribute is left out.
WebhookMessage_Retraced(r, source, traceId) ==
    [id |-> PublishedMessageId(r), attrTraceId |-> NoId, origin |-> r,
     data |-> JSONstringify([NoData EXCEPT !.source = source,
                                           !.traceId = traceId + 50])]

\* Lines 264-279: the message built and published for a request.
WebhookMessage(r, source, traceId) ==
    [id |-> PublishedMessageId(r), attrTraceId |-> traceId, origin |-> r,
     data |-> JSONstringify([NoData EXCEPT !.source = source,
                                           !.traceId = traceId])]

\* Lines 235-262, up to the first await.  (Requests are numbered in the
\* order they arrive.)
WebhookReceive(r, body) ==
    /\ req[r].pc = "idle"
    /\ \A q \in Reqs : q < r => req[q].pc # "idle"
    /\ IF BodyRejected(body)
         THEN /\ req' = [req EXCEPT ![r].pc = "done", ![r].body = body,
                           ![r].resp = [NoResp EXCEPT !.code = 400,
                              !.error = "Request body must be a JSON object"]]
              /\ UNCHANGED auditCounters
         ELSE /\ auditCounters' = [auditCounters EXCEPT
                                     !.totalReceived = @ + 1]
              /\ req' = [req EXCEPT ![r].pc = "rootCreate", ![r].body = body,
                           ![r].nReceived = @ + 1,
                           ![r].rootStart = now,
                           ![r].traceId = GatewayTraceId(r),
                           ![r].source = OrStr(body.source, "unknown"),
                           ![r].rootSpanId = randomUUID("ingress", r, "root")]
    /\ UNCHANGED <<spans, tasks, usageLogs, queue, del, now, agents, tools>>

\* The root span of request r.
WebhookRootSpan(r) ==
    NewSpan(req[r].rootSpanId, req[r].traceId, NoSpan,
            "ingress", "webhook_receive", Null,
            [NoMeta EXCEPT !.source = req[r].source])

\* Variant: the root span write is not awaited, the handler goes on to the
\* publish whether or not the row was written.
WebhookRootSpanCreate_NotAwaited(r, ok) ==
    /\ req[r].pc = "rootCreate"
    /\ spans' = IF ok THEN spans \cup { WebhookRootSpan(r) } ELSE spans
    /\ req' = [req EXCEPT ![r].pc = "publish", ![r].opStart = now,
                 ![r].failedAt = IF ok THEN NoStr ELSE "rootCreate"]
    /\ UNCHANGED <<tasks, usageLogs, queue, auditCounters, del, now,
                   agents, tools>>

\* Lines 254-262: the root span write.  It is outside the try block, so a
\* failure leaves the handler as an unhandled rejection and the framework
\* answers 500 on its own.
WebhookRootSpanCreate(r, ok) ==
    /\ req[r].pc = "rootCreate"
    /\ IF ok
         THEN /\ spans' = spans \cup { WebhookRootSpan(r) }
              /\ req' = [req EXCEPT ![r].pc = "publish", ![r].opStart = now]
         ELSE /\ req' = [req EXCEPT ![r].pc = "done",
                           ![r].failedAt = "rootCreate",
                           ![r].resp = [NoResp EXCEPT !.code = 500,
                                          !.error = "Internal Server Error"]]
              /\ UNCHANGED spans
    /\ UNCHANGED <<tasks, usageLogs, queue, auditCounters, del, now,
                   agents, tools>>

\* Lines 310-311: entering the catch block.
WebhookCatch(r) ==
    /\ auditCounters' = [auditCounters EXCEPT !.totalFailed = @ + 1]
    /\ req' = [req EXCEPT ![r].pc = "errUpdate", ![r].nFailed = @ + 1,
                 ![r].failedAt = req[r].pc,
                 ![r].dur = ElapsedSince(req[r].rootStart)]

\* Lines 274-280: topic.publishMessage.
WebhookPublish(r, ok) ==
    /\ req[r].pc = "publish"
    /\ IF ok
         THEN /\ queue' = queue \cup
                   { WebhookMessage(r, req[r].source, req[r].traceId) }
              /\ auditCounters' = [auditCounters EXCEPT
                                     !.totalPublished = @ + 1]
              /\ req' = [req EXCEPT ![r].pc = "pubSpan",
                           ![r].messageId = PublishedMessageId(r),
                           ![r].nPublished = @ + 1,
                           ![r].dur = ElapsedSince(req[r].opStart)]
         ELSE /\ WebhookCatch(r)
              /\ UNCHANGED queue
    /\ UNCHANGED <<spans, tasks, usageLogs, del, now, agents, tools>>

\* Lines 282-292: the pubsub_publish child span.
WebhookPublishSpan(r, ok) ==
    /\ req[r].pc = "pubSpan"
    /\ IF ok
         THEN /\ spans' = spans \cup
                   { NewSpan(randomUUID("ingress", r, "pubsub_publish"),
                             req[r].traceId, req[r].rootSpanId,
                             "ingress", "pubsub_publish", req[r].dur,
                             [NoMeta EXCEPT !.messageId = req[r].messageId,
                                            !.topic = TRUE]) }
              /\ req' = [req EXCEPT ![r].pc = "rootClose",
                           ![r].dur = ElapsedSince(req[r].rootStart)]
              /\ UNCHANGED auditCounters
         ELSE /\ WebhookCatch(r)
              /\ UNCHANGED spans
    /\ UNCHANGED <<tasks, usageLogs, queue, del, now, agents, tools>>

\* Lines 294-309: close the root span and answer 200.
WebhookRootClose(r, ok) ==
    /\ req[r].pc = "rootClose"
    /\ IF ok
         THEN /\ spans' = UpdateSpanDuration(req[r].rootSpanId, req[r].dur)
              /\ req' = [req EXCEPT ![r].pc = "done",
                           ![r].resp = [NoResp EXCEPT !.code = 200,
                                          !.status = "queued",
                                          !.messageId = req[r].messageId,
                                          !.traceId = req[r].traceId]]
              /\ UNCHANGED auditCounters
         ELSE /\ WebhookCatch(r)
              /\ UNCHANGED spans
    /\ UNCHANGED <<tasks, usageLogs, queue, del, now, agents, tools>>

\* Lines 313-320: best-effort ERROR mark on the root span, then 500.
WebhookErrorUpdate(r, ok) ==
    /\ req[r].pc = "errUpdate"
    /\ spans' = IF ok /\ SpanExists(req[r].rootSpanId)
                  THEN UpdateSpanError(req[r].rootSpanId, req[r].dur)
                  ELSE spans
    /\ req' = [req EXCEPT ![r].pc = "done",
                 ![r].swallowed = ~(ok /\ SpanExists(req[r].rootSpanId)),
                 ![r].resp = [NoResp EXCEPT !.code = 500,
                                !.error = "Failed to queue message"]]
    /\ UNCHANGED <<tasks, usageLogs, queue, auditCounters, del, now,
                   agents, tools>>

\* ------------------------------------------- worker: handleMessage(message)
\* Fixed-cost accounting of lines 67-69 and 148-150 (cost in 1/10000 USD).
ResumeTokens   == 50
ResumeCost     == 5
ToolCallTokens == 120
ToolCallCost   == 12

\* Variant: the payload field is looked at first.
ResolveTraceId_PayloadFirst(attrTraceId, dataTraceId, fresh) ==
    OrId(dataTraceId, OrId(attrTraceId, fresh))

\* Lines 38-39: attribute, else payload field, else a fresh id.
ResolveTraceId(attrTraceId, dataTraceId, fresh) ==
    OrId(attrTraceId, OrId(dataTraceId, fresh))

\* Line 101.
SourceOf(data) == OrStr(data.source, "unknown")

\* Variant: the lookup falls back to any agent when none has the role.
FindFirstAgent_Fallback(role) ==
    IF \E a \in agents : a.role = role
      THEN { a \in agents : a.role = role }
      ELSE agents

\* prisma.agent.findFirst({where: {role}}): the rows that may be returned
\* (no orderBy is given), NoAgent standing for null.
FindFirstAgent(role) ==
    IF \E a \in agents : a.role = role
      THEN { a \in agents : a.role = role }
      ELSE { NoAgent }

\* Variant: the flag is set whatever the lookup returned.
Found_Always(agent) == TRUE

\* `!!agent` of line 114 and the test of line 118.
Found(agent) == agent # NoAgent

\* Lines 123-129: the Task row (by: the handling that wrote it, kept as
\* history for the properties, not a column).
NewTask(d, agent, source, data) ==
    [id |-> NewTaskId(d), agentId |-> agent.id, description |-> source,
     inputPayload |-> data, by |-> d]

\* Variant: the create is keyed by the payload, so a redelivered message
\* finds its Task and adds none.
CreateTask_Idempotent(row) ==
    IF \E t \in tasks : t.inputPayload = row.inputPayload
      THEN tasks ELSE tasks \cup {row}

\* prisma.task.create: one more row, whatever rows there are already.
CreateTask(row) == tasks \cup {row}

\* Variant: the tool call is booked at the resume rate.
ToolCallUsageLog_ResumeRate(d, agent, taskId, source, traceId) ==
    [id |-> randomUUID("usage", d, "tool_call"), agentId |-> agent.id,
     action |-> "tool_call", tokens |-> ResumeTokens,
     costUsd |-> ResumeCost,
     metadata |-> [taskId |-> taskId, source |-> source,
                   traceId |-> traceId],
     by |-> d]

\* Lines 145-153.
ToolCallUsageLog(d, agent, taskId, source, traceId) ==
    [id |-> randomUUID("usage", d, "tool_call"), agentId |-> agent.id,
     action |-> "tool_call", tokens |-> ToolCallTokens,
     costUsd |-> ToolCallCost,
     metadata |-> [taskId |-> taskId, source |-> source,
                   traceId |-> traceId],
     by |-> d]

\* Variant: the resume is booked as a tool call.
ResumeUsageLog_ToolCall(d, data, traceId) ==
    [id |-> randomUUID("usage", d, "resume"), agentId |-> data.agentId,
     action |-> "tool_call", tokens |-> ToolCallTokens,
     costUsd |-> ToolCallCost,
     metadata |-> [taskId |-> data.taskId, source |-> NoStr,
                   traceId |-> traceId],
     by |-> d]

\* Lines 64-72.
ResumeUsageLog(d, data, traceId) ==
    [id |-> randomUUID("usage", d, "resume"), agentId |-> data.agentId,
     action |-> "resume", tokens |-> ResumeTokens, costUsd |-> ResumeCost,
     metadata |-> [taskId |-> data.taskId, source |-> NoStr,
                   traceId |-> traceId],
     by |-> d]

Data(d) == JSONparse(del[d].msg.data)

\* message.ack() / message.nack().
Ack(rec)  == [rec EXCEPT !.acks = @ + 1]
Nack(rec) == [rec EXCEPT !.nacks = @ + 1]

\* Variant: a failed handling is started over instead of being given up.
WorkerCatch_Retry(rec) ==
    [rec EXCEPT !.pc = "rootCreate", !.failedAt = rec.pc,
                !.dur = ElapsedSince(rec.rootStart)]

\* Lines 168-176, reached with traceId set: the ERROR update is issued.
WorkerCatch(rec) ==
    [rec EXCEPT !.pc = "errUpdate", !.failedAt = rec.pc,
                !.dur = ElapsedSince(rec.rootStart)]

\* Variant: the catch block nacks the bad message instead of acking it.
WorkerCatchNoTrace_Nack(rec) ==
    Nack([rec EXCEPT !.pc = "done", !.failedAt = "parse"])

\* Lines 168-179, reached with traceId still '': no update, ack at once.
WorkerCatchNoTrace(rec) ==
    Ack([rec EXCEPT !.pc = "done", !.failedAt = "parse"])

\* Lines 25-56 up to the first await: parse, resolve the trace id, issue
\* the root span write.  Any message the topic holds may be delivered, and
\* delivered again (at-least-once).  (Deliveries are numbered in the order
\* they start.)
Deliver(d, m) ==
    /\ del[d].pc = "idle"
    /\ \A e \in Dels : e < d => del[e].pc # "idle"
    /\ LET rec == [del[d] EXCEPT !.msg = m, !.rootStart = now,
                     !.rootSpanId = randomUUID("orchestrator", d, "root")]
           data == JSONparse(m.data)
       IN  del' = [del EXCEPT ![d] =
             IF ParseThrows(m.data)
               THEN WorkerCatchNoTrace(rec)
             ELSE IF m.data.isNull /\ m.attrTraceId = NoId
               THEN WorkerCatchNoTrace(rec)   \* data.traceId of null throws
             ELSE [rec EXCEPT !.pc = "rootCreate",
                     !.traceId = IF m.data.isNull THEN m.attrTraceId
                                 ELSE ResolveTraceId(m.attrTraceId,
                                        data.traceId, WorkerTraceId(d))]]
    /\ UNCHANGED <<spans, tasks, usageLogs, queue, auditCounters, req, now,
                   agents, tools>>

\* Lines 59-101: the routing decision taken once the root span is written.
WorkerRoute(d) ==
    IF del[d].msg.data.isNull
      THEN WorkerCatch([del[d] EXCEPT !.pc = "route"])
                                                   \* data.type of null throws
    ELSE IF Data(d).type = "RESUME"
      THEN IF Data(d).agentId # NoId
             THEN [del[d] EXCEPT !.pc = "resumeUsage"]
             ELSE [del[d] EXCEPT !.pc = "resumeSpan",
                     !.dur = ElapsedSince(del[d].rootStart)]
    ELSE [del[d] EXCEPT !.pc = "agentLookup", !.opStart = now,
            !.source = SourceOf(Data(d))]

\* Variant: the worker's span is linked below the root span of the request
\* that published the message.
WorkerRootSpan_Linked(d) ==
    NewSpan(del[d].rootSpanId, del[d].traceId,
            IF del[d].msg.origin \in Reqs
              THEN randomUUID("ingress", del[d].msg.origin, "root")
              ELSE NoSpan,
            "orchestrator", "process_message", Null,
            [NoMeta EXCEPT !.messageId = del[d].msg.id])

\* The root span of delivery d.
WorkerRootSpan(d) ==
    NewSpan(del[d].rootSpanId, del[d].traceId, NoSpan,
            "orchestrator", "process_message", Null,
            [NoMeta EXCEPT !.messageId = del[d].msg.id])

\* Variant: the root span write is not awaited, the handler goes on whether
\* or not the row was written.
WorkerRootSpanCreate_NotAwaited(d, ok) ==
    /\ del[d].pc = "rootCreate"
    /\ spans' = IF ok THEN spans \cup { WorkerRootSpan(d) } ELSE spans
    /\ del' = [del EXCEPT ![d] = WorkerRoute(d)]
    /\ UNCHANGED <<tasks, usageLogs, queue, auditCounters, req, now,
                   agents, tools>>

\* Lines 48-63: the root span write, then the routing decision.
WorkerRootSpanCreate(d, ok) ==
    /\ del[d].pc = "rootCreate"
    /\ IF ok
         THEN /\ spans' = spans \cup { WorkerRootSpan(d) }
              /\ del' = [del EXCEPT ![d] = WorkerRoute(d)]
         ELSE /\ del' = [del EXCEPT ![d] = WorkerCatch(del[d])]
              /\ UNCHANGED spans
    /\ UNCHANGED <<tasks, usageLogs, queue, auditCounters, req, now,
                   agents, tools>>

\* Lines 64-72: the resume UsageLog row.
WorkerResumeUsageLog(d, ok) ==
    /\ del[d].pc = "resumeUsage"
    /\ IF ok
         THEN /\ usageLogs' = usageLogs \cup
                   { ResumeUsageLog(d, Data(d), del[d].traceId) }
              /\ del' = [del EXCEPT ![d].pc = "resumeSpan",
                           ![d].dur = ElapsedSince(del[d].rootStart)]
         ELSE /\ del' = [del EXCEPT ![d] = WorkerCatch(del[d])]
              /\ UNCHANGED usageLogs
    /\ UNCHANGED <<spans, tasks, queue, auditCounters, req, now, agents, tools>>

\* Variant: the resume looks the Task up and marks it as resumed.
WorkerResumeSpan_MarksTask(d, ok) ==
    /\ del[d].pc = "resumeSpan"
    /\ IF ok
         THEN /\ spans' = spans \cup
                   { NewSpan(randomUUID("orchestrator", d, "resume_agent"),
                             del[d].traceId, del[d].rootSpanId,
                             "orchestrator", "resume_agent", del[d].dur,
                             [NoMeta EXCEPT !.taskId = Data(d).taskId]) }
              /\ tasks' = { IF t.id = Data(d).taskId
                              THEN [t EXCEPT !.description = "resumed"]
                              ELSE t : t \in tasks }
              /\ del' = [del EXCEPT ![d].pc = "resumeClose",
                           ![d].dur = ElapsedSince(del[d].rootStart)]
         ELSE /\ del' = [del EXCEPT ![d] = WorkerCatch(del[d])]
              /\ UNCHANGED <<spans, tasks>>
    /\ UNCHANGED <<usageLogs, queue, auditCounters, req, now, agents, tools>>

\* Lines 77-86: the resume_agent child span.
WorkerResumeSpan(d, ok) ==
    /\ del[d].pc = "resumeSpan"
    /\ IF ok
         THEN /\ spans' = spans \cup
                   { NewSpan(randomUUID("orchestrator", d, "resume_agent"),
                             del[d].traceId, del[d].rootSpanId,
                             "orchestrator", "resume_agent", del[d].dur,
                             [NoMeta EXCEPT !.taskId = Data(d).taskId]) }
              /\ del' = [del EXCEPT ![d].pc = "resumeClose",
                           ![d].dur = ElapsedSince(del[d].rootStart)]
         ELSE /\ del' = [del EXCEPT ![d] = WorkerCatch(del[d])]
              /\ UNCHANGED spans
    /\ UNCHANGED <<tasks, usageLogs, queue, auditCounters, req, now,
                   agents, tools>>

\* Lines 89-96: close the root span, acknowledge, return.
WorkerResumeRootClose(d, ok) ==
    /\ del[d].pc = "resumeClose"
    /\ IF ok
         THEN /\ spans' = UpdateSpanDuration(del[d].rootSpanId, del[d].dur)
              /\ del' = [del EXCEPT ![d] = Ack([del[d] EXCEPT !.pc = "done"])]
         ELSE /\ del' = [del EXCEPT ![d] = WorkerCatch(del[d])]
              /\ UNCHANGED spans
    /\ UNCHANGED <<tasks, usageLogs, queue, auditCounters, req, now,
                   agents, tools>>

\* Lines 100-104: the agent lookup.
WorkerAgentLookup(d, ok) ==
    /\ del[d].pc = "agentLookup"
    /\ IF ok
         THEN \E a \in FindFirstAgent(del[d].source) :
                del' = [del EXCEPT ![d].pc = "lookupSpan", ![d].agent = a,
                          ![d].dur = ElapsedSince(del[d].opStart)]
         ELSE del' = [del EXCEPT ![d] = WorkerCatch(del[d])]
    /\ UNCHANGED <<spans, tasks, usageLogs, queue, auditCounters, req, now,
                   agents, tools>>

\* Lines 107-122: the agent_lookup child span, then the branch on agent.
WorkerAgentLookupSpan(d, ok) ==
    /\ del[d].pc = "lookupSpan"
    /\ IF ok
         THEN /\ spans' = spans \cup
                   { NewSpan(randomUUID("orchestrator", d, "agent_lookup"),
                             del[d].traceId, del[d].rootSpanId,
                             "orchestrator", "agent_lookup", del[d].dur,
                             [NoMeta EXCEPT !.source = del[d].source,
                                !.found = Found(del[d].agent)]) }
              /\ del' = [del EXCEPT ![d] =
                           IF Found(del[d].agent)
                             THEN [del[d] EXCEPT !.pc = "taskCreate",
                                     !.opStart = now]
                             ELSE [del[d] EXCEPT !.pc = "rootClose",
                                     !.dur = ElapsedSince(del[d].rootStart)]]
         ELSE /\ del' = [del EXCEPT ![d] = WorkerCatch(del[d])]
              /\ UNCHANGED spans
    /\ UNCHANGED <<tasks, usageLogs, queue, auditCounters, req, now,
                   agents, tools>>

\* Lines 123-130: the Task row.
WorkerTaskCreate(d, ok) ==
    /\ del[d].pc = "taskCreate"
    /\ IF ok
         THEN /\ tasks' = CreateTask(NewTask(d, del[d].agent, del[d].source,
                                             Data(d)))
              /\ del' = [del EXCEPT ![d].pc = "taskSpan",
                           ![d].taskId = NewTaskId(d),
                           ![d].dur = ElapsedSince(del[d].opStart)]
         ELSE /\ del' = [del EXCEPT ![d] = WorkerCatch(del[d])]
              /\ UNCHANGED tasks
    /\ UNCHANGED <<spans, usageLogs, queue, auditCounters, req, now,
                   agents, tools>>

\* Lines 133-142: the task_create child span.
WorkerTaskCreateSpan(d, ok) ==
    /\ del[d].pc = "taskSpan"
    /\ IF ok
         THEN /\ spans' = spans \cup
                   { NewSpan(randomUUID("orchestrator", d, "task_create"),
                             del[d].traceId, del[d].rootSpanId,
                             "orchestrator", "task_create", del[d].dur,
                             [NoMeta EXCEPT !.taskId = del[d].taskId,
                                !.agentName = del[d].agent.name]) }
              /\ del' = [del EXCEPT ![d].pc = "usageLog"]
         ELSE /\ del' = [del EXCEPT ![d] = WorkerCatch(del[d])]
              /\ UNCHANGED spans
    /\ UNCHANGED <<tasks, usageLogs, queue, auditCounters, req, now,
                   agents, tools>>

\* Variant: Task and UsageLog are written as one transaction, a rejected
\* UsageLog write takes the Task back.
WorkerUsageLogCreate_Rollback(d, ok) ==
    /\ del[d].pc = "usageLog"
    /\ IF ok
         THEN /\ usageLogs' = usageLogs \cup
                   { ToolCallUsageLog(d, del[d].agent, del[d].taskId,
                                      del[d].source, del[d].traceId) }
              /\ del' = [del EXCEPT ![d].pc = "rootClose",
                           ![d].dur = ElapsedSince(del[d].rootStart)]
              /\ UNCHANGED tasks
         ELSE /\ del' = [del EXCEPT ![d] = WorkerCatch(del[d])]
              /\ tasks' = { t \in tasks : t.id # del[d].taskId }
              /\ UNCHANGED usageLogs
    /\ UNCHANGED <<spans, queue, auditCounters, req, now, agents, tools>>

\* Lines 145-154: the tool_call UsageLog row.
WorkerUsageLogCreate(d, ok) ==
    /\ del[d].pc = "usageLog"
    /\ IF ok
         THEN /\ usageLogs' = usageLogs \cup
                   { ToolCallUsageLog(d, del[d].agent, del[d].taskId,
                                      del[d].source, del[d].traceId) }
              /\ del' = [del EXCEPT ![d].pc = "rootClose",
                           ![d].dur = ElapsedSince(del[d].rootStart)]
         ELSE /\ del' = [del EXCEPT ![d] = WorkerCatch(del[d])]
              /\ UNCHANGED usageLogs
    /\ UNCHANGED <<spans, tasks, queue, auditCounters, req, now, agents, tools>>

\* Lines 160-167: close the root span and acknowledge.
WorkerRootClose(d, ok) ==
    /\ del[d].pc = "rootClose"
    /\ IF ok
         THEN /\ spans' = UpdateSpanDuration(del[d].rootSpanId, del[d].dur)
              /\ del' = [del EXCEPT ![d] = Ack([del[d] EXCEPT !.pc = "done"])]
         ELSE /\ del' = [del EXCEPT ![d] = WorkerCatch(del[d])]
              /\ UNCHANGED spans
    /\ UNCHANGED <<tasks, usageLogs, queue, auditCounters, req, now,
                   agents, tools>>

\* Lines 171-179: best-effort ERROR mark on the root span (the update's
\* rejection is swallowed), then the acknowledgement.
WorkerErrorUpdate(d, ok) ==
    /\ del[d].pc = "errUpdate"
    /\ spans' = IF ok /\ SpanExists(del[d].rootSpanId)
                  THEN UpdateSpanError(del[d].rootSpanId, del[d].dur)
                  ELSE spans
    /\ del' = [del EXCEPT ![d] = Ack([del[d] EXCEPT !.pc = "done",
                 !.swallowed = ~(ok /\ SpanExists(del[d].rootSpanId))])]
    /\ UNCHANGED <<tasks, usageLogs, queue, auditCounters, req, now,
                   agents, tools>>

\* ---------------------------------------------------------- specification
\* One step of a webhook request that has passed validation.
WebhookStep(r) ==
    \/ \E ok \in BOOLEAN : WebhookRootSpanCreate(r, ok)
    \/ \E ok \in BOOLEAN : WebhookPublish(r, ok)
    \/ \E ok \in BOOLEAN : WebhookPublishSpan(r, ok)
    \/ \E ok \in BOOLEAN : WebhookRootClose(r, ok)
    \/ \E ok \in BOOLEAN : WebhookErrorUpdate(r, ok)

NextGateway ==
    \/ \E r \in Reqs, body \in Bodies : WebhookReceive(r, body)
    \/ \E r \in Reqs : WebhookStep(r)

\* Bodies of the documented shape {source, payload}.
SignalBodies == { b \in Bodies : b.kind = "object" /\ b.source # NoStr }

NextSignalGateway ==
    \/ \E r \in Reqs, body \in SignalBodies : WebhookReceive(r, body)
    \/ \E r \in Reqs : WebhookStep(r)

\* One step of the handling of a delivery: the writes every handling starts
\* and ends with and those of the signal branch, and those of the RESUME
\* branch.
WorkerSignalStep(d) ==
    \/ \E ok \in BOOLEAN : WorkerRootSpanCreate(d, ok)
    \/ \E ok \in BOOLEAN : WorkerAgentLookup(d, ok)
    \/ \E ok \in BOOLEAN : WorkerAgentLookupSpan(d, ok)
    \/ \E ok \in BOOLEAN : WorkerTaskCreate(d, ok)
    \/ \E ok \in BOOLEAN : WorkerTaskCreateSpan(d, ok)
    \/ \E ok \in BOOLEAN : WorkerUsageLogCreate(d, ok)
    \/ \E ok \in BOOLEAN : WorkerRootClose(d, ok)
    \/ \E ok \in BOOLEAN : WorkerErrorUpdate(d, ok)

WorkerResumeStep(d) ==
    \/ \E ok \in BOOLEAN : WorkerResumeUsageLog(d, ok)
    \/ \E ok \in BOOLEAN : WorkerResumeSpan(d, ok)
    \/ \E ok \in BOOLEAN : WorkerResumeRootClose(d, ok)

WorkerStep(d) == WorkerSignalStep(d) \/ WorkerResumeStep(d)

NextWorker ==
    \/ \E d \in Dels, m \in queue : Deliver(d, m)
    \/ \E d \in Dels : WorkerStep(d)

\* The signal pipeline: signals enter at the gateway, pass the queue and are
\* handled by the worker.  (No RESUME message comes from the gateway.)
Next ==
    \/ NextSignalGateway
    \/ \E d \in Dels, m \in queue : Deliver(d, m)
    \/ \E d \in Dels : WorkerSignalStep(d)

Spec == Init /\ [][Next]_vars

\* The gateway alone, on every kind of request body.
SpecGateway == Init /\ [][NextGateway]_vars

\* The worker alone, on a topic that holds the messages other publishers
\* sent (among them one of the gateway's own shape).
InitWorker ==
    /\ spans = {}
    /\ tasks = {}
    /\ usageLogs = {}
    /\ queue = ExternalMessages
    /\ auditCounters = [totalReceived |-> 0, totalPublished |-> 0,
                        totalFailed |-> 0]
    /\ req = [r \in Reqs |-> ReqInit]
    /\ del = [d \in Dels |-> DelInit]
    /\ now = 0
    /\ agents = Agents
    /\ tools = Tools

SpecWorker == InitWorker /\ [][NextWorker]_vars

\* Time passes.
Tick ==
    /\ now < MaxTime
    /\ now' = now + 1
    /\ UNCHANGED <<spans, tasks, usageLogs, queue, auditCounters, req, del,
                   agents, tools>>

\* One request and one delivery, handled while the clock runs; the delivery
\* is of an external message or of the message the request published.
FirstReq == CHOOSE r \in Reqs : \A q \in Reqs : r <= q
FirstDel == CHOOSE d \in Dels : \A e \in Dels : d <= e
NextTimed ==
    \/ Tick
    \/ \E body \in Bodies : WebhookReceive(FirstReq, body)
    \/ WebhookStep(FirstReq)
    \/ \E m \in queue : Deliver(FirstDel, m)
    \/ WorkerStep(FirstDel)

SpecTimed == InitWorker /\ [][NextTimed]_vars

\* The worker process stops: the handlings that are between two awaits go
\* no further (nothing is acknowledged, nothing is taken back).
Crash ==
    /\ \E d \in Dels : del[d].pc \notin {"idle", "done", "crashed"}
    /\ del' = [d \in Dels |->
                 IF del[d].pc \in {"idle", "done", "crashed"}
                   THEN del[d]
                   ELSE [del[d] EXCEPT !.pc = "crashed"]]
    /\ UNCHANGED <<spans, tasks, usageLogs, queue, auditCounters, req, now,
                   agents, tools>>

\* The worker alone, in a process that may stop at any time and be started
\* again.
SpecWorkerCrash == InitWorker /\ [][NextWorker \/ Crash]_vars

\* The worker when every store call it awaits eventually returns or throws.
FairSpecWorker ==
    SpecWorker /\ \A d \in Dels : WF_vars(WorkerStep(d))

\* ============================================================== properties
\* Vocabulary of the properties.
Started(d)   == del[d].pc # "idle"
Finished(d)  == del[d].pc = "done"
Threw(d)     == del[d].failedAt # NoStr
\* The payload parsed to an object.
ParsedObject(d) ==
    Started(d) /\ ~ParseThrows(del[d].msg.data) /\ ~del[d].msg.data.isNull
IsResume(d)  == ParsedObject(d) /\ Data(d).type = "RESUME"
IsSignal(d)  == ParsedObject(d) /\ Data(d).type # "RESUME"
\* A registered agent has the role the signal's source names.
AgentMatches(d) == \E a \in Agents : a.role = SourceOf(Data(d))
TasksBy(d)   == { t \in tasks : t.by = d }
UsageBy(d)   == { u \in usageLogs : u.by = d }
SpansBy(svc, n) == { s \in spans : s.id[1] = svc /\ s.id[2] = n }
RootSpansBy(svc, n) == { s \in SpansBy(svc, n) : s.parentId = NoSpan }

\* ---- C1 ----------------------------------------------------------------
\* C1: every delivery handed to handleMessage is acknowledged exactly once
\* and never nacked, on every path: no ack before the handling ends, exactly
\* one ack when it has ended (normally or through the catch block), and
\* nack() is never called.
C1_AckExactlyOnce ==
    \A d \in Dels :
        /\ del[d].nacks = 0
        /\ Finished(d) => del[d].acks = 1
        /\ ~Finished(d) => del[d].acks = 0

\* A handling that ended through the catch block after a store failure, and
\* another that ended on the normal path, both acknowledged.
C1_Witness ==
    \E d, e \in Dels :
        /\ Finished(d) /\ Threw(d) /\ del[d].failedAt # "parse"
        /\ del[d].acks = 1
        /\ Finished(e) /\ ~Threw(e) /\ del[e].acks = 1

\* ---- C2 ----------------------------------------------------------------
\* C2: every delivery the worker started handling eventually reaches ACKED
\* (handling ended, message acknowledged), provided each store call it
\* awaits eventually returns or throws.
C2_EventuallyAcked ==
    \A d \in Dels :
        Started(d) ~> (Finished(d) /\ del[d].acks = 1)

\* A handling that went through the agent-matched branch as far as the
\* UsageLog write, failed there, and still ended acknowledged.
C2_Witness ==
    \E d \in Dels :
        /\ Finished(d) /\ del[d].acks = 1
        /\ del[d].failedAt = "usageLog"
        /\ TasksBy(d) # {}

\* ---- C3 ----------------------------------------------------------------
\* C3: when POST /webhook has answered 200, the traceId of the response is
\* the traceId attribute and the traceId body field of the message that
\* request published, and every span (root and children) the worker has
\* written while handling a delivery of that message carries that traceId.
C3_TraceIdPropagates ==
    \A r \in Reqs :
        req[r].resp.code = 200 =>
            /\ \E m \in queue : m.origin = r /\ m.id = req[r].resp.messageId
            /\ \A m \in queue :
                 m.origin = r =>
                    /\ m.attrTraceId = req[r].resp.traceId
                    /\ JSONparse(m.data).traceId = req[r].resp.traceId
            /\ \A d \in Dels :
                 (Started(d) /\ del[d].msg.origin = r) =>
                    \A s \in SpansBy("orchestrator", d) :
                        s.traceId = req[r].resp.traceId

\* A request answered 200 whose message the worker has handled to the end,
\* writing the root span and child spans.
C3_Witness ==
    \E r \in Reqs, d \in Dels :
        /\ req[r].resp.code = 200
        /\ Finished(d) /\ del[d].msg.origin = r
        /\ Cardinality(SpansBy("orchestrator", d)) >= 3

\* ---- C4 ----------------------------------------------------------------
\* Delivery d has written exactly one Task row, linked to the agent whose
\* role is the signal's source, and exactly one UsageLog row, a tool_call of
\* 120 tokens and 0.0012 USD for that agent.
OneTaskAndToolCall(d) ==
    \E a \in Agents :
        /\ a.role = SourceOf(Data(d))
        /\ Cardinality(TasksBy(d)) = 1
        /\ \A t \in TasksBy(d) : t.agentId = a.id
        /\ Cardinality(UsageBy(d)) = 1
        /\ \A u \in UsageBy(d) :
             /\ u.action = "tool_call" /\ u.tokens = 120 /\ u.costUsd = 12
             /\ u.agentId = a.id

\* C4 as claimed: every handled delivery of a non-RESUME message whose
\* source is the role of a registered agent has created exactly one Task row
\* and exactly one tool_call UsageLog row (120 tokens, 0.0012 USD).
C4_Original ==
    \A d \in Dels :
        (Finished(d) /\ IsSignal(d) /\ AgentMatches(d)) =>
            OneTaskAndToolCall(d)

\* C4 as amended: the handling of such a delivery never creates more than
\* one Task row or more than one UsageLog row, and when it has ended without
\* an exception it has created exactly one Task row linked to that agent and
\* exactly one tool_call UsageLog row (120 tokens, 0.0012 USD) for it.
C4_OneTaskOneUsageLog ==
    \A d \in Dels :
        (IsSignal(d) /\ AgentMatches(d)) =>
            /\ Cardinality(TasksBy(d)) <= 1
            /\ Cardinality(UsageBy(d)) <= 1
            /\ (Finished(d) /\ ~Threw(d)) => OneTaskAndToolCall(d)

\* A matched signal handled to the end without exception.
C4_Witness ==
    \E d \in Dels :
        /\ Finished(d) /\ ~Threw(d) /\ IsSignal(d) /\ AgentMatches(d)
        /\ TasksBy(d) # {} /\ UsageBy(d) # {}

\* ---- C5 ----------------------------------------------------------------
\* The root span of delivery d is not marked ERROR.
RootNotError(d) ==
    \A s \in RootSpansBy("orchestrator", d) : s.status # "ERROR"

\* C5 as claimed: every handled delivery of a non-RESUME message whose
\* source matches no agent role has created no Task row and no UsageLog row,
\* has not marked its root span ERROR, and is acknowledged.
C5_Original ==
    \A d \in Dels :
        (Finished(d) /\ IsSignal(d) /\ ~AgentMatches(d)) =>
            /\ TasksBy(d) = {} /\ UsageBy(d) = {}
            /\ RootNotError(d)
            /\ del[d].acks = 1

\* C5 as amended: such a delivery creates no Task row and no UsageLog row
\* at any point of its handling and is acknowledged when the handling ends;
\* its root span is not marked ERROR unless a store call of the handling
\* threw (the missing agent itself is no error).
C5_NoAgentNoRows ==
    \A d \in Dels :
        (IsSignal(d) /\ ~AgentMatches(d)) =>
            /\ TasksBy(d) = {} /\ UsageBy(d) = {}
            /\ Finished(d) => del[d].acks = 1
            /\ ~Threw(d) => RootNotError(d)

\* A signal without matching agent handled to the end: lookup span written,
\* root span closed, nothing thrown.
C5_Witness ==
    \E d \in Dels :
        /\ Finished(d) /\ ~Threw(d) /\ IsSignal(d) /\ ~AgentMatches(d)
        /\ \E s \in SpansBy("orchestrator", d) :
              s.operation = "agent_lookup" /\ ~s.metadata.found
        /\ \E s \in RootSpansBy("orchestrator", d) : s.durationMs # Null

\* ---- C6 ----------------------------------------------------------------
CarriesAgentId(d) == IsResume(d) /\ Data(d).agentId # NoId

\* Delivery d has written exactly one UsageLog row: a resume of 50 tokens
\* and 0.0005 USD for the agentId of the message.
OneResumeUsageLog(d) ==
    /\ Cardinality(UsageBy(d)) = 1
    /\ \A u \in UsageBy(d) :
         /\ u.action = "resume" /\ u.tokens = 50 /\ u.costUsd = 5
         /\ u.agentId = Data(d).agentId

\* C6 as claimed: every handled delivery of a RESUME message carrying
\* agentId has created exactly one resume UsageLog row (50 tokens, 0.0005
\* USD, that agentId) and no Task row.
C6_Original ==
    \A d \in Dels :
        (Finished(d) /\ CarriesAgentId(d)) =>
            OneResumeUsageLog(d) /\ TasksBy(d) = {}

\* C6 as amended: the handling of a RESUME message carrying agentId never
\* creates more than one UsageLog row, has created exactly one (resume, 50
\* tokens, 0.0005 USD, that agentId) when it has ended without an exception,
\* and no step of the handling of a RESUME message creates, updates or
\* deletes a Task row.
C6_ResumeUsageLog ==
    /\ [](\A d \in Dels :
            CarriesAgentId(d) =>
                /\ Cardinality(UsageBy(d)) <= 1
                /\ TasksBy(d) = {}
                /\ (Finished(d) /\ ~Threw(d)) => OneResumeUsageLog(d))
    /\ [][\A d \in Dels :
            (IsResume(d) /\ del'[d] # del[d]) => tasks' = tasks]_vars

\* A RESUME with agentId handled to the end without exception, while Task
\* rows written by another handling exist.
C6_Witness ==
    \E d \in Dels :
        /\ Finished(d) /\ ~Threw(d) /\ CarriesAgentId(d)
        /\ UsageBy(d) # {}
        /\ tasks # {}

\* ---- C7 ----------------------------------------------------------------
\* d and e are two deliveries of one message.
SameMessageTwice(d, e) ==
    /\ d # e /\ Started(d) /\ Started(e)
    /\ del[d].msg = del[e].msg

\* The two handlings have left two Task rows and two distinct
\* process_message root spans.
TwoTasksTwoRoots(d, e) ==
    /\ Cardinality(TasksBy(d) \cup TasksBy(e)) = 2
    /\ Cardinality({ t.id : t \in TasksBy(d) \cup TasksBy(e) }) = 2
    /\ Cardinality({ s.id : s \in { x \in RootSpansBy("orchestrator", d)
                                          \cup RootSpansBy("orchestrator", e) :
                                      x.operation = "process_message" } }) = 2

\* C7 as claimed: whenever one message whose source an agent matches has
\* been delivered twice and both handlings have ended, there are two Task
\* rows and two distinct process_message root spans.
C7_Original ==
    \A d, e \in Dels :
        (SameMessageTwice(d, e) /\ Finished(d) /\ Finished(e)
           /\ IsSignal(d) /\ AgentMatches(d)) =>
            TwoTasksTwoRoots(d, e)

\* C7 as amended: the same, for two handlings that both ended without an
\* exception (in whatever order their steps interleaved).
C7_NotIdempotent ==
    \A d, e \in Dels :
        (SameMessageTwice(d, e) /\ Finished(d) /\ Finished(e)
           /\ ~Threw(d) /\ ~Threw(e)
           /\ IsSignal(d) /\ AgentMatches(d)) =>
            TwoTasksTwoRoots(d, e)

\* One matched message delivered twice, both handlings ended without
\* exception, two Task rows for the one message.
C7_Witness ==
    \E d, e \in Dels :
        /\ SameMessageTwice(d, e) /\ Finished(d) /\ Finished(e)
        /\ ~Threw(d) /\ ~Threw(e) /\ IsSignal(d) /\ AgentMatches(d)
        /\ Cardinality(tasks) = 2

\* ---- C8 ----------------------------------------------------------------
\* Request r passed validation; its publish returned a message id; its
\* publish threw.
Accepted(r)      == req[r].nReceived = 1
PublishOk(r)     == req[r].messageId # NoId
PublishFailed(r) == req[r].failedAt = "publish"
Answered(r)      == req[r].pc = "done"

\* C8 as claimed: the outcome of an accepted request is determined by the
\* publish result.  Publish succeeded: the request has incremented
\* totalPublished and not totalFailed, and its answer is 200 {status:
\* "queued", messageId, traceId}.  Publish failed: it has incremented
\* totalFailed and not totalPublished, its answer is 500 {error: "Failed to
\* queue message"}, and its root span is marked ERROR (or, the mark being
\* best-effort, left open when the marking update itself failed).
C8_Original ==
    \A r \in Reqs :
        /\ (Accepted(r) /\ PublishOk(r)) =>
              /\ req[r].nPublished = 1 /\ req[r].nFailed = 0
              /\ Answered(r) =>
                    req[r].resp = [NoResp EXCEPT !.code = 200,
                                     !.status = "queued",
                                     !.messageId = req[r].messageId,
                                     !.traceId = req[r].traceId]
        /\ (Accepted(r) /\ PublishFailed(r)) =>
              /\ req[r].nFailed = 1 /\ req[r].nPublished = 0
              /\ Answered(r) =>
                    /\ req[r].resp = [NoResp EXCEPT !.code = 500,
                                        !.error = "Failed to queue message"]
                    /\ \A s \in RootSpansBy("ingress", r) :
                          s.status = "ERROR" \/ s.durationMs = Null

\* ---- C9 ----------------------------------------------------------------
\* The body of request r is missing or is not a JSON object.
NotJsonObject(r) == req[r].pc # "idle" /\ req[r].body.kind # "object"

\* C9 as claimed: a request whose body is missing or not a JSON object is
\* answered 400 {error: "Request body must be a JSON object"} and leaves all
\* state as it was: no counter incremented, no span written, no message
\* published.
C9_Original ==
    \A r \in Reqs :
        NotJsonObject(r) =>
            /\ req[r].resp = [NoResp EXCEPT !.code = 400,
                                !.error = "Request body must be a JSON object"]
            /\ req[r].nReceived = 0
            /\ req[r].nPublished = 0
            /\ req[r].nFailed = 0
            /\ SpansBy("ingress", r) = {}
            /\ \A m \in queue : m.origin # r

\* ---- C10 ---------------------------------------------------------------
\* The only call of delivery d that threw was a child-span write or the
\* root-span close; the same for request r.
OnlyRecorderFailedInWorker(d) ==
    del[d].failedAt \in
        {"lookupSpan", "taskSpan", "resumeSpan", "rootClose", "resumeClose"}
OnlyRecorderFailedInGateway(r) ==
    req[r].failedAt \in {"pubSpan", "rootClose"}

\* C10 as claimed: a failed child-span write or root-span close does not
\* change the business outcome.  A handled matching-agent signal has its
\* Task and tool_call UsageLog, a handled RESUME with agentId has its resume
\* UsageLog, and a request whose message was published is answered 200.
C10_Original ==
    /\ \A d \in Dels :
          (Finished(d) /\ OnlyRecorderFailedInWorker(d)) =>
              /\ (IsSignal(d) /\ AgentMatches(d)) => OneTaskAndToolCall(d)
              /\ CarriesAgentId(d) => OneResumeUsageLog(d)
    /\ \A r \in Reqs :
          (Answered(r) /\ PublishOk(r) /\ OnlyRecorderFailedInGateway(r)) =>
              req[r].resp.code = 200


\* ---------------------------------------------------------------- C11
\* A call of the try block threw after the handling's root span was written.
ThrewAfterRoot(d) ==
    Threw(d) /\ del[d].failedAt \notin {"parse", "rootCreate"}
PublishPathThrew(r) ==
    req[r].failedAt \in {"publish", "pubSpan", "rootClose"}
\* The root span carries the ERROR mark and a duration that is not negative.
MarkedError(root) == root.status = "ERROR" /\ root.durationMs >= 0

\* C11: when a call throws in the worker after the root span was written,
\* the handling ends with that root span marked ERROR with a durationMs
\* >= 0, unless the marking update was itself rejected; the rejection is
\* swallowed and the message is acknowledged all the same.  The gateway's
\* root span ends the same way on the publish-error path, and the request
\* is answered (500) all the same.
C11_ErrorMarked ==
    /\ \A d \in Dels : ThrewAfterRoot(d) /\ Finished(d) =>
          /\ del[d].acks = 1
          /\ Cardinality(RootSpansBy("orchestrator", d)) = 1
          /\ \A root \in RootSpansBy("orchestrator", d) :
                IF del[d].swallowed THEN root.status = DefaultStatus
                                    ELSE MarkedError(root)
    /\ \A r \in Reqs : PublishPathThrew(r) /\ Answered(r) =>
          /\ req[r].resp.code = 500
          /\ Cardinality(RootSpansBy("ingress", r)) = 1
          /\ \A root \in RootSpansBy("ingress", r) :
                IF req[r].swallowed THEN root.status = DefaultStatus
                                    ELSE MarkedError(root)

\* A delivery ended with its root span marked ERROR after a handling that
\* took time, and a request whose ERROR update was rejected got its 500.
C11_Witness ==
    /\ \E d \in Dels :
          /\ ThrewAfterRoot(d) /\ Finished(d) /\ ~del[d].swallowed
          /\ \E root \in RootSpansBy("orchestrator", d) :
                root.status = "ERROR" /\ root.durationMs > 0
    /\ \E r \in Reqs :
          /\ PublishPathThrew(r) /\ Answered(r) /\ req[r].swallowed
          /\ req[r].resp.code = 500

\* ---------------------------------------------------------------- C12
\* C12: in every reachable state, however the handlers interleave, a span
\* that has a parentId references a span that exists and has its traceId.
C12_ParentExists ==
    \A s \in spans : s.parentId # NoSpan =>
        \E p \in spans : p.id = s.parentId /\ p.traceId = s.traceId

\* Child spans of the gateway and of the worker in one trace, while another
\* delivery is between two of its own span writes.
C12_Witness ==
    /\ \E s, t \in spans :
          /\ s.parentId # NoSpan /\ t.parentId # NoSpan
          /\ s.id[1] = "ingress" /\ t.id[1] = "orchestrator"
          /\ s.traceId = t.traceId
    /\ \E d \in Dels : del[d].pc = "lookupSpan"

\* ---------------------------------------------------------------- C13
\* The handler is awaiting the closing update of its root span.
WorkerClosing(d)  == del[d].pc \in {"rootClose", "resumeClose"}
GatewayClosing(r) == req[r].pc = "rootClose"
\* The root span is closed: status OK and the duration written.
ClosedOk(root, durationMs) ==
    root.status = "OK" /\ root.durationMs = durationMs /\ durationMs >= 0

\* In every state where a flow has completed without an exception, its root
\* span is closed and no part of the flow took longer than the whole.
C13_ClosedWhenComplete ==
    /\ \A d \in Dels : Finished(d) /\ ~Threw(d) =>
          /\ del[d].acks = 1
          /\ Cardinality(RootSpansBy("orchestrator", d)) = 1
          /\ \A root \in RootSpansBy("orchestrator", d) :
                /\ ClosedOk(root, del[d].dur)
                /\ \A s \in SpansBy("orchestrator", d) :
                      s.durationMs <= root.durationMs
    /\ \A r \in Reqs : Answered(r) /\ req[r].resp.code = 200 =>
          /\ Cardinality(RootSpansBy("ingress", r)) = 1
          /\ \A root \in RootSpansBy("ingress", r) :
                /\ ClosedOk(root, req[r].dur)
                /\ \A s \in SpansBy("ingress", r) :
                      s.durationMs <= root.durationMs

\* The closing update carries the time elapsed since the handler started,
\* and the step that acknowledges the message (answers the request) is the
\* one in which that update has returned.
C13_CloseStep ==
    /\ \A d \in Dels :
          /\ ~WorkerClosing(d) /\ WorkerClosing(d)' =>
                del'[d].dur = now - del[d].rootStart
          /\ del'[d].acks > del[d].acks /\ ~Threw(d)' =>
                /\ WorkerClosing(d) /\ del[d].acks = 0
                /\ \A root \in RootSpansBy("orchestrator", d) :
                      root.durationMs = Null
                /\ \A root \in RootSpansBy("orchestrator", d)' :
                      ClosedOk(root, del[d].dur)
    /\ \A r \in Reqs :
          /\ ~GatewayClosing(r) /\ GatewayClosing(r)' =>
                req'[r].dur = now - req[r].rootStart
          /\ ~Answered(r) /\ Answered(r)' /\ req'[r].resp.code = 200 =>
                /\ GatewayClosing(r)
                /\ \A root \in RootSpansBy("ingress", r)' :
                      ClosedOk(root, req[r].dur)

TraceIdsApartFrom(d) ==
    { m.attrTraceId : m \in queue } \cup
    { JSONparse(m.data).traceId : m \in queue } \cup
    { del[e].traceId : e \in Dels \ {d} } \cup
    { req[r].traceId : r \in Reqs } \cup
    { s.traceId : s \in spans \ SpansBy("orchestrator", d) }

\* C14: the worker resolves the trace id of a delivery by strict
\* precedence: the message attribute traceId when present (non-empty), else
\* the payload's traceId field when present, else a fresh id distinct from
\* every existing trace id; the attribute wins when the two differ.  The
\* spans the delivery writes carry the resolved id.
C14_TraceIdPrecedence ==
    \A d \in Dels :
      Started(d) /\ ~ParseThrows(del[d].msg.data) =>
        LET attr == del[d].msg.attrTraceId
        IN  /\ attr # NoId => del[d].traceId = attr
            /\ attr = NoId /\ ParsedObject(d) /\ Data(d).traceId # NoId =>
                  del[d].traceId = Data(d).traceId
            /\ attr = NoId /\ ParsedObject(d) /\ Data(d).traceId = NoId =>
                  /\ del[d].traceId # NoId
                  /\ del[d].traceId \notin TraceIdsApartFrom(d)
            /\ \A s \in SpansBy("orchestrator", d) :
                  s.traceId = del[d].traceId

\* One delivery whose attribute and payload name different traces has
\* written its root span, another one that had neither has written its own.
C14_Witness ==
    \E d, e \in Dels :
      /\ del[d].msg.attrTraceId # NoId /\ ParsedObject(d)
      /\ Data(d).traceId \notin {NoId, del[d].msg.attrTraceId}
      /\ \E s \in RootSpansBy("orchestrator", d) :
            s.traceId = del[d].msg.attrTraceId
      /\ del[e].msg.attrTraceId = NoId /\ ParsedObject(e)
      /\ Data(e).traceId = NoId
      /\ \E s \in RootSpansBy("orchestrator", e) : s.traceId = del[e].traceId

\* ---------------------------------------------------------------- C15
\* The bytes delivery d received are not JSON.
NotJson(d) == Started(d) /\ ~del[d].msg.data.wf

\* A delivery of bytes that are not JSON is over at once, acknowledged, and
\* no row of the store is its work.
C15_NothingWritten ==
    \A d \in Dels : NotJson(d) =>
        /\ Finished(d) /\ del[d].acks = 1
        /\ del[d].traceId = NoId
        /\ SpansBy("orchestrator", d) = {}
        /\ TasksBy(d) = {}
        /\ UsageBy(d) = {}

\* The step that receives such bytes leaves the store as it was.
C15_StoreUntouched ==
    \A d \in Dels : ~Started(d) /\ NotJson(d)' =>
        UNCHANGED <<spans, tasks, usageLogs>>

\* C15: when the payload of a delivery fails to parse as JSON, the worker
\* writes nothing to the store (no TraceSpan created or updated, no Task,
\* no UsageLog) and acknowledges the message.
C15_ParseFailure == []C15_NothingWritten /\ [][C15_StoreUntouched]_vars

\* Bytes that are not JSON were delivered and acknowledged while the store
\* holds the rows of another delivery.
C15_Witness ==
    /\ \E d \in Dels : NotJson(d) /\ Finished(d) /\ del[d].acks = 1
    /\ spans # {} /\ tasks # {}

\* ---------------------------------------------------------------- C16
\* The write of the handling's root span was rejected.
RootWriteFailedInGateway(r) == req[r].failedAt = "rootCreate"
RootWriteFailedInWorker(d)  == del[d].failedAt = "rootCreate"

\* C16: a failure of the initial root-span write is fatal for the flow.
\* In the gateway no message is published for that request; in the worker
\* no child span, Task or UsageLog is written for that delivery, and the
\* message is acknowledged all the same.
C16_RootWriteFatal ==
    /\ \A r \in Reqs : RootWriteFailedInGateway(r) =>
          /\ \A m \in queue : m.origin # r
          /\ req[r].nPublished = 0 /\ req[r].messageId = NoId
          /\ SpansBy("ingress", r) = {}
          /\ Answered(r) /\ req[r].resp.code = 500
    /\ \A d \in Dels : RootWriteFailedInWorker(d) =>
          /\ SpansBy("orchestrator", d) = {}
          /\ TasksBy(d) = {}
          /\ UsageBy(d) = {}
          /\ del[d].pc \in {"errUpdate", "done"}
          /\ Finished(d) => del[d].acks = 1

\* One request lost its root-span write, and so did a delivery of the
\* message another request published; the delivery is acknowledged.
C16_Witness ==
    /\ \E r \in Reqs : RootWriteFailedInGateway(r) /\ Answered(r)
    /\ \E d \in Dels :
          /\ RootWriteFailedInWorker(d) /\ Finished(d) /\ del[d].acks = 1
          /\ del[d].msg.origin \in Reqs

\* ---------------------------------------------------------------- C17
\* Delivery d is of a non-RESUME message and has called the agent lookup.
ReachedLookup(d) == IsSignal(d) /\ del[d].source # NoStr
\* The lookup has returned and the write of its span has returned.
PassedLookupSpan(d) ==
    /\ ReachedLookup(d)
    /\ del[d].pc \notin {"agentLookup", "lookupSpan"}
    /\ del[d].failedAt \notin {"agentLookup", "lookupSpan"}
LookupSpansBy(d) ==
    { s \in SpansBy("orchestrator", d) : s.operation = "agent_lookup" }

\* The claim as the spec states it: exactly one agent_lookup span for every
\* delivery that reached the lookup, once its handling is over.
C17_Original ==
    \A d \in Dels : ReachedLookup(d) /\ Finished(d) =>
        Cardinality(LookupSpansBy(d)) = 1

\* C17 (amended): a non-RESUME delivery that reaches the agent lookup writes
\* at most one agent_lookup child span, and exactly one once the lookup and
\* the span write have both returned, whether or not an agent was found;
\* the span's metadata.found is true exactly when an agent whose role is
\* the source ("unknown" if absent) exists, and a Task is created only
\* after a span with found = true.
C17_AgentLookupSpan ==
    \A d \in Dels : ReachedLookup(d) =>
        /\ Cardinality(LookupSpansBy(d)) <= 1
        /\ PassedLookupSpan(d) => Cardinality(LookupSpansBy(d)) = 1
        /\ \A s \in LookupSpansBy(d) :
              /\ s.parentId = del[d].rootSpanId
              /\ s.metadata.source = SourceOf(Data(d))
              /\ s.metadata.found = AgentMatches(d)
        /\ TasksBy(d) # {} =>
              \E s \in LookupSpansBy(d) : s.metadata.found

\* Two handlings ended without an exception: one found an agent and
\* created a Task, the other found none; each wrote its agent_lookup span.
C17_Witness ==
    \E d, e \in Dels :
      /\ Finished(d) /\ ~Threw(d) /\ TasksBy(d) # {}
      /\ \E s \in LookupSpansBy(d) : s.metadata.found
      /\ Finished(e) /\ ~Threw(e) /\ TasksBy(e) = {}
      /\ \E s \in LookupSpansBy(e) : ~s.metadata.found

\* ---------------------------------------------------------------- C18
\* The parent-less spans of a trace.
RootsOfTrace(traceId) ==
    { s \in spans : s.traceId = traceId /\ s.parentId = NoSpan }
\* Spans s and p were written by the same handling.
SameHandling(s, p) == s.id[1] = p.id[1] /\ s.id[2] = p.id[2]

\* The claim as the spec states it: one parent-less span per trace, and the
\* worker's process_message span below the gateway's webhook_receive span.
C18_Original ==
    \A s \in spans :
        /\ Cardinality(RootsOfTrace(s.traceId)) = 1
        /\ s.operation = "process_message" =>
              \A g \in spans :
                g.operation = "webhook_receive" /\ g.traceId = s.traceId =>
                  s.parentId = g.id

\* C18 (amended): the spans sharing a traceId form one tree per handling:
\* every request and every delivery writes its own parent-less root span
\* (webhook_receive, process_message) and links its child spans directly
\* below it.  In a flow from the gateway through the queue to the worker
\* the process_message span of each delivery is a second root of the
\* trace, related to the webhook_receive span by the traceId only.
C18_TreePerHandling ==
    /\ \A s \in spans :
          IF s.parentId = NoSpan
            THEN s.operation \in {"webhook_receive", "process_message"}
            ELSE \E p \in spans :
                   /\ p.id = s.parentId /\ p.parentId = NoSpan
                   /\ p.traceId = s.traceId /\ SameHandling(s, p)
    /\ \A r \in Reqs : Cardinality(RootSpansBy("ingress", r)) <= 1
    /\ \A d \in Dels :
          /\ Cardinality(RootSpansBy("orchestrator", d)) <= 1
          /\ \A w \in RootSpansBy("orchestrator", d) :
                del[d].msg.origin \in Reqs =>
                  \E g \in RootSpansBy("ingress", del[d].msg.origin) :
                    {g, w} \subseteq RootsOfTrace(w.traceId) /\ g # w

\* A message went from the gateway to the worker; both handlings wrote a
\* root span and a child span, all four in one trace.
C18_Witness ==
    \E g, w, c, e \in spans :
      /\ g.operation = "webhook_receive" /\ w.operation = "process_message"
      /\ c.parentId = g.id /\ e.parentId = w.id
      /\ {w.traceId, c.traceId, e.traceId} = {g.traceId}

\* ---------------------------------------------------------------- C19
ToolCalls == { u \in usageLogs : u.action = "tool_call" }
\* The handling of delivery d is over, by acknowledgement or by a crash.
Over(d) == del[d].pc \in {"done", "crashed"}
\* Delivery d left a Task and no UsageLog.
TaskWithoutUsageLog(d) == Over(d) /\ TasksBy(d) # {} /\ UsageBy(d) = {}

\* Every tool_call UsageLog names the Task of the same handling and the
\* agent that Task is linked to; a Task whose create returned is there.
C19_UsageLogHasTask ==
    /\ \A u \in ToolCalls :
          \E t \in tasks :
            t.id = u.metadata.taskId /\ t.by = u.by /\ t.agentId = u.agentId
    /\ \A d \in Dels :
          del[d].taskId # NoId => \E t \in TasksBy(d) : t.id = del[d].taskId

\* No step takes a Task or a UsageLog back, and the Task a new tool_call
\* UsageLog names was written by an earlier step.
C19_NoRollback ==
    /\ tasks \subseteq tasks'
    /\ usageLogs \subseteq usageLogs'
    /\ \A u \in ToolCalls' \ ToolCalls :
          \E t \in tasks : t.id = u.metadata.taskId /\ t.by = u.by

\* C19: the writes of one worker flow are independent and not atomic.
\* Once the Task create has succeeded, a failure or a crash at a later step
\* leaves the Task row in place (no rollback), so a Task without a
\* tool_call UsageLog is reachable; the reverse never occurs: every
\* tool_call UsageLog references (metadata.taskId) a Task created earlier in
\* the same handling.
C19_NonAtomic == []C19_UsageLogHasTask /\ [][C19_NoRollback]_vars

\* A Task without UsageLog left by a handling that caught an exception, and
\* another left by a handling the crash stopped.
C19_Witness ==
    \E d, e \in Dels :
      /\ TaskWithoutUsageLog(d) /\ Finished(d) /\ Threw(d)
      /\ TaskWithoutUsageLog(e) /\ del[e].pc = "crashed"

\* ---------------------------------------------------------------- C20
\* The handling that wrote span s takes this step.
CreatorSteps(s) ==
    IF s.id[1] = "ingress" THEN req'[s.id[2]] # req[s.id[2]]
                           ELSE del'[s.id[2]] # del[s.id[2]]
\* Row t is row s with other terminal fields.
TerminalFieldsOnly(s, t) ==
    t = [s EXCEPT !.durationMs = t.durationMs, !.status = t.status]

C20_FrameStep ==
    /\ agents' = agents /\ tools' = tools
    /\ tasks \subseteq tasks' /\ usageLogs \subseteq usageLogs'
    /\ \A t \in tasks' \ tasks : del'[t.by] # del[t.by]
    /\ \A u \in usageLogs' \ usageLogs : del'[u.by] # del[u.by]
    /\ \A s \in spans :
          \/ s \in spans'
          \/ /\ s.parentId = NoSpan /\ CreatorSteps(s)
             /\ \E t \in spans' : t.id = s.id /\ TerminalFieldsOnly(s, t)
    /\ \A t \in spans' :
          \/ \E s \in spans : s.id = t.id
          \/ CreatorSteps(t)

\* C20: frame of the worker and the gateway.  Handling a message or a
\* request only appends Task, UsageLog and TraceSpan rows and updates the
\* terminal fields (durationMs, status) of the root span that same handling
\* created; no Task or UsageLog row is updated or deleted, no TraceSpan is
\* deleted, no span of another handling is updated, and no Agent or Tool
\* row is written.
C20_Frame == [][C20_FrameStep]_vars

\* A delivery has marked its own root span ERROR; the root span of the
\* request of the same trace is closed OK and a Task is in the store.
C20_Witness ==
    \E d \in Dels, r \in Reqs :
      /\ Finished(d) /\ del[d].msg.origin = r /\ tasks # {}
      /\ \E w \in RootSpansBy("orchestrator", d) : w.status = "ERROR"
      /\ \E g \in RootSpansBy("ingress", r) :
            g.status = "OK" /\ g.durationMs # Null

\* ---------------------------------------------------------------- C21
\* The taskId of the RESUME message of delivery d names a Task of the store.
ReferencedTaskExists(d) == \E t \in tasks : t.id = Data(d).taskId
ResumeSpansBy(d) ==
    { s \in SpansBy("orchestrator", d) : s.operation = "resume_agent" }
\* The RESUME handling of delivery d went through: the resume_agent span
\* carries the taskId as received, the root span is closed, the message is
\* acknowledged.
ResumeWentThrough(d) ==
    /\ Cardinality(ResumeSpansBy(d)) = 1
    /\ \A s \in ResumeSpansBy(d) :
          s.metadata.taskId = Data(d).taskId /\ s.parentId = del[d].rootSpanId
    /\ \A root \in RootSpansBy("orchestrator", d) :
          root.status = "OK" /\ root.durationMs # Null
    /\ del[d].acks = 1

\* The outcome of a RESUME handling is the same with and without the Task.
C21_SameOutcome ==
    \A d \in Dels : IsResume(d) =>
        /\ TasksBy(d) = {}
        /\ Cardinality(ResumeSpansBy(d)) <= 1
        /\ ~CarriesAgentId(d) => UsageBy(d) = {}
        /\ Finished(d) /\ ~Threw(d) /\ ReferencedTaskExists(d) =>
              ResumeWentThrough(d)
        /\ Finished(d) /\ ~Threw(d) /\ ~ReferencedTaskExists(d) =>
              ResumeWentThrough(d)

\* A step of a RESUME handling leaves the Task rows as they are, and what it
\* does next does not depend on them: only a store call that throws sends
\* the handling to its catch block.
C21_TasksUntouched ==
    \A d \in Dels : IsResume(d) /\ del'[d] # del[d] =>
        /\ tasks' = tasks
        /\ Threw(d)' /\ ~Threw(d) => UNCHANGED <<spans, usageLogs>>

\* C21: RESUME handling does not validate the referenced task.  A RESUME
\* message is handled the same way (resume_agent child span recorded, root
\* span closed, message acknowledged, no Task read or written) whether or
\* not its taskId names an existing Task, and a RESUME message without
\* agentId creates no UsageLog row.
C21_NoValidation == []C21_SameOutcome /\ [][C21_TasksUntouched]_vars

\* A RESUME without agentId that names the Task another delivery wrote has
\* gone through, and has written no UsageLog.
C21_Witness ==
    \E d \in Dels :
      /\ IsResume(d) /\ ~CarriesAgentId(d) /\ ReferencedTaskExists(d)
      /\ Finished(d) /\ ~Threw(d) /\ ResumeWentThrough(d)
      /\ UsageBy(d) = {}

\* ---------------------------------------------------------------- C22
\* No request is between its arrival and its answer.
NoRequestInFlight == \A r \in Reqs : req[r].pc \in {"idle", "done"}
Outcomes == auditCounters.totalPublished + auditCounters.totalFailed

\* C22 as claimed: in every reachable state of the gateway, under any
\* interleaving of requests and any publish or store failure,
\* totalPublished + totalFailed <= totalReceived, and the two sides are
\* equal when no request is in flight (every accepted request is counted
\* as exactly one of published or failed).
C22_Original ==
    /\ Outcomes <= auditCounters.totalReceived
    /\ NoRequestInFlight => Outcomes = auditCounters.totalReceived
====
